---- MODULE Spec2Model ----
(***************************************************************************)
(* State-machine model of ApiBarberBooker (src/src/api-booker.ts): the     *)
(* axios client with its two interceptors (the session cookie store) and   *)
(* the booking flow validate -> login -> time lookup -> booking; and of     *)
(* the network monitoring of the exploration tool (index.ts).              *)
(*                                                                         *)
(* Texts the code parses or formats (Set-Cookie lines, the Cookie header,  *)
(* the login page body) are sequences of one-character strings, so that    *)
(* split / trim / join are computed as the code computes them.             *)
(***************************************************************************)
EXTENDS Integers, Sequences, FiniteSets, TLC

VARIABLES
    sessionCookies,  \* this.sessionCookies: sequence of "name=value" texts
    pc,              \* the request the running method sends next, or "idle"
    entry,           \* the public method the caller invoked
    config,          \* the argument of the running invocation
    inflight,        \* the request sent and not yet answered
    sent,            \* requests of the running invocation, in order, with outcome
    lastResp,        \* outcome of the most recently answered request
    lastSetCookie,   \* Set-Cookie lines of the latest accepted response that had any
    isValid,         \* value returned by validateMobile
    loginPage,       \* the accepted login page response (login, line 107)
    loggedIn,        \* value returned by login
    times,           \* value returned by getAvailableTimes
    result,          \* value returned by bookAppointment
    bookingResult,   \* value returned by completeBooking
    fetched,         \* value returned by a single-request method
    calls,           \* number of public invocations so far
    twin,            \* two runs of completeBooking side by side: the requests and
                     \* responses of the running one, and the first run kept whole
    networkRequests, \* the exploration tool's log of requests (index.ts)
    networkResponses,\* the exploration tool's log of responses
    lastEvent        \* the request or response the page emitted last, and how many so far

vars == <<sessionCookies, pc, entry, config, inflight, sent, lastResp,
          lastSetCookie, isValid, loginPage, loggedIn, times, result,
          bookingResult, fetched, calls, twin,
          networkRequests, networkResponses, lastEvent>>

\* the state of the exploration tool, which the booking client never touches
monitorVars == <<networkRequests, networkResponses, lastEvent>>

\* the state of the booking client, which the exploration tool never touches
bookerVars == <<sessionCookies, pc, entry, config, inflight, sent, lastResp,
                lastSetCookie, isValid, loginPage, loggedIn, times, result,
                bookingResult, fetched, calls, twin>>

---------------------------------------------------------------------------
(* Bounds *)

MaxCalls == 1        \* public invocations per client in the booking flow
MaxExchanges == 2    \* single-request invocations per client (cookie spec)
MaxSetCookie == 2    \* Set-Cookie lines per response (cookie spec)

---------------------------------------------------------------------------
(* Text helpers: String.prototype.split / trim and Array.prototype.join *)

RECURSIVE IndexOf(_, _, _)
\* first position >= i of character c in s, 0 when there is none
IndexOf(s, c, i) ==
    IF i > Len(s) THEN 0
    ELSE IF s[i] = c THEN i
    ELSE IndexOf(s, c, i + 1)

RECURSIVE Split(_, _)
\* s.split(c) for a one-character separator c
Split(s, c) ==
    LET k == IndexOf(s, c, 1)
    IN  IF k = 0 THEN <<s>>
        ELSE <<SubSeq(s, 1, k - 1)>> \o Split(SubSeq(s, k + 1, Len(s)), c)

RECURSIVE Trim(_)
\* s.trim() with the blank as the only whitespace character
Trim(s) ==
    IF s = <<>> THEN s
    ELSE IF Head(s) = " " THEN Trim(Tail(s))
    ELSE IF s[Len(s)] = " " THEN Trim(SubSeq(s, 1, Len(s) - 1))
    ELSE s

RECURSIVE Join(_, _)
\* parts.join(sep)
Join(parts, sep) ==
    IF parts = <<>> THEN <<>>
    ELSE IF Len(parts) = 1 THEN parts[1]
    ELSE parts[1] \o sep \o Join(Tail(parts), sep)

---------------------------------------------------------------------------
(* The response interceptor: capture cookies (constructor, lines 45-64) *)

\* MapSet that keeps the value a name already has
MapSetKeepsFirst(m, name, value) ==
    IF \E i \in 1..Len(m) : m[i][1] = name
    THEN m
    ELSE Append(m, <<name, value>>)

\* Map.prototype.set on an insertion-ordered map kept as a sequence of pairs
MapSet(m, name, value) ==
    IF \E i \in 1..Len(m) : m[i][1] = name
    THEN [i \in 1..Len(m) |-> IF m[i][1] = name THEN <<name, value>> ELSE m[i]]
    ELSE Append(m, <<name, value>>)

\* the body of the forEach callback, lines 50-59
CaptureCookie(cookieMap, cookieHeader) ==
    LET cookiePart == Trim(Split(cookieHeader, ";")[1])
        parts      == Split(cookiePart, "=")
        name       == parts[1]
        valueParts == Tail(parts)
    IN  IF cookiePart # <<>> /\ name # <<>> /\ Len(valueParts) > 0
        THEN MapSet(cookieMap, Trim(name), Join(valueParts, <<"=">>))
        ELSE cookieMap

RECURSIVE CookieMapOf(_, _)
\* setCookieHeaders.forEach(...) started from the map m
CookieMapOf(m, setCookieHeaders) ==
    IF setCookieHeaders = <<>> THEN m
    ELSE CookieMapOf(CaptureCookie(m, Head(setCookieHeaders)), Tail(setCookieHeaders))

\* ResponseInterceptor that empties the store when the response sets no cookie
ResponseInterceptorResets(store, response) ==
    IF response.setCookie.present
    THEN LET cookieMap == CookieMapOf(<<>>, response.setCookie.lines)
         IN  [i \in 1..Len(cookieMap) |-> cookieMap[i][1] \o <<"=">> \o cookieMap[i][2]]
    ELSE <<>>

\* the session store after an accepted response, lines 46-63
ResponseInterceptor(store, response) ==
    IF response.setCookie.present
    THEN LET cookieMap == CookieMapOf(<<>>, response.setCookie.lines)
         IN  [i \in 1..Len(cookieMap) |-> cookieMap[i][1] \o <<"=">> \o cookieMap[i][2]]
    ELSE store

---------------------------------------------------------------------------
(* The request interceptor: replay cookies (constructor, lines 67-72) *)

NoCookieHeader == [present |-> FALSE, text |-> <<>>]

\* RequestInterceptor that replays the first cookie only
RequestInterceptorFirstOnly(store) ==
    IF Len(store) > 0
    THEN [present |-> TRUE, text |-> store[1]]
    ELSE NoCookieHeader

RequestInterceptor(store) ==
    IF Len(store) > 0
    THEN [present |-> TRUE, text |-> Join(store, <<";", " ">>)]
    ELSE NoCookieHeader

---------------------------------------------------------------------------
(* Requests: method, path and parameters of each call site *)

Absent == "absent"                 \* an optional field that is not given
Truthy(v) == v # Absent /\ v # ""  \* JavaScript truthiness of an optional string

\* config.serviceTypeId ? [config.serviceTypeId] : [37331]   (line 365)
AppointmentTypeIds(cfg) ==
    IF Truthy(cfg.serviceTypeId) THEN <<cfg.serviceTypeId>> ELSE <<"37331">>

\* config.schedulerId || 6132   (line 362)
SchedulerIdOf(cfg) ==
    IF Truthy(cfg.schedulerId) THEN cfg.schedulerId ELSE "6132"

DefaultLength == "7"     \* bookAppointment's default for length (line 300)
\* the argument length of bookAppointment, or its default
LengthOf(cfg) == IF cfg.length = Absent THEN DefaultLength ELSE cfg.length
DefaultBranchId == "0"   \* getAvailableTimes' default for branchId (line 191)

Endpoints ==
    {"validate", "loginPage", "loginSubmit", "typeSelect", "schedulerSelect",
     "timeSelect", "timeFetch", "revisit", "ask",
     "typeSelectList", "providers", "nextWeek"}

MethodOf(ep) ==
    IF ep \in {"validate", "loginSubmit", "timeFetch", "ask", "typeSelectList", "nextWeek"}
    THEN "POST" ELSE "GET"

PathOf(ep) ==
    CASE ep = "validate"        -> "/Validate/Mobile"
      [] ep = "loginPage"       -> "/Account/LoginClients"
      [] ep = "loginSubmit"     -> "/Account/LoginMobileClient"
      [] ep = "typeSelect"      -> "/Clients/TypeSelect/0"
      [] ep = "schedulerSelect" -> "/Clients/SchedulerSelect"
      [] ep = "timeSelect"      -> "/Clients/TimeSelect"
      [] ep = "timeFetch"       -> "/Clients/TimeSelectScheduler"
      [] ep = "revisit"         -> "/Clients/TimeSelect"
      [] ep = "ask"             -> "/Clients/AskAppointment"
      [] ep = "typeSelectList"  -> "/Clients/TypeSelectList"
      [] ep = "providers"       -> "/Clients/SchedulerSelect"
      [] ep = "nextWeek"        -> "/Clients/TimeSelectScheduler2"

\* ValidateStatus with axios' default at every call site
ValidateStatusDefault(ep, status) == status \in 200..299

\* validateStatus of the call site: axios' default, or the one passed
\* (lines 128, 199, 211, 224, 242)
ValidateStatus(ep, status) ==
    IF ep \in {"loginSubmit", "typeSelect", "schedulerSelect", "timeSelect", "timeFetch"}
    THEN status >= 200 /\ status < 400
    ELSE status >= 200 /\ status < 300

\* query parameters of the call site, as a sequence of <<name, value>>
ParamsOf(ep, cfg) ==
    LET ids   == AppointmentTypeIds(cfg)
        sched == SchedulerIdOf(cfg)
    IN  CASE ep = "validate"  -> << <<"Mobile", <<cfg.mobile>> >> >>
          [] ep = "loginPage" -> << <<"CustomerID", <<"0">> >>,
                                    <<"ReturnUrl", <<"/Clients/MakeAppoitment">> >> >>
          [] ep \in {"schedulerSelect", "providers"} ->
                 << <<"ids", <<ids[1]>> >>, <<"id", <<"0">> >>, <<"Customers", <<"">> >>,
                    <<"BranchID", <<DefaultBranchId>> >> >>
          [] ep \in {"timeSelect", "timeFetch", "nextWeek"} ->
                 << <<"ids", <<ids[1]>> >>, <<"id", <<"0">> >>, <<"Customers", <<"">> >>,
                    <<"SchedulerID", <<sched>> >>, <<"BranchID", <<DefaultBranchId>> >> >>
          [] ep = "revisit" ->
                 << <<"ids", ids>>, <<"id", <<"0">> >>, <<"Customers", <<"">> >>,
                    <<"SchedulerID", <<sched>> >>, <<"BranchID", <<"0">> >> >>
          [] ep = "ask" -> << <<"Length", <<LengthOf(cfg)>> >> >>
          [] OTHER -> <<>>

---------------------------------------------------------------------------
(* The login page body and the verification token (login, lines 112-117) *)
(* A body is a sequence of symbols: "T" is the text                        *)
(* __RequestVerificationToken, "V" the text value=, "Q" a quote character  *)
(* (single or double), ">" itself, anything else an ordinary character.    *)

ObjectBody == <<"{object}">>     \* a body that is not a string
MessageBody == <<"{message}">>   \* an object body that has a message field
IsString(data) == data # ObjectBody /\ data # MessageBody

\* end of the quoted value that starts right after position j, 0 if none:
\* value= Quote NonQuote+ Quote
ValueEnd(body, j) ==
    IF j + 3 <= Len(body) /\ body[j] = "V" /\ body[j + 1] = "Q" /\ body[j + 2] # "Q"
    THEN IndexOf(body, "Q", j + 2)
    ELSE 0

\* TokenMatches with [^>]* read as .* : the value may sit in a later tag
TokenMatchesAnywhere(body) ==
    {m \in (1..Len(body)) \X (1..Len(body)) :
        /\ m[1] < m[2]
        /\ body[m[1]] = "T"
        /\ ValueEnd(body, m[2]) > 0}

\* the <<i, j>> at which /__RequestVerificationToken[^>]*value=["']([^"']+)["']/
\* can match: name at i, value= at j, no ">" in between
TokenMatches(body) ==
    {m \in (1..Len(body)) \X (1..Len(body)) :
        /\ m[1] < m[2]
        /\ body[m[1]] = "T"
        /\ \A k \in (m[1] + 1)..(m[2] - 1) : body[k] # ">"
        /\ ValueEnd(body, m[2]) > 0}

\* loginPage.data.match(...): the captured group, <<>> when there is no match
\* (leftmost name, then the greedy [^>]* takes the last value= that works)
TokenMatch(body) ==
    IF TokenMatches(body) = {} THEN <<>>
    ELSE LET i == CHOOSE i \in 1..Len(body) :
                     /\ \E m \in TokenMatches(body) : m[1] = i
                     /\ \A m \in TokenMatches(body) : m[1] >= i
             j == CHOOSE j \in 1..Len(body) :
                     /\ <<i, j>> \in TokenMatches(body)
                     /\ \A m \in TokenMatches(body) : m[1] = i => m[2] <= j
         IN  SubSeq(body, j + 2, ValueEnd(body, j) - 1)

---------------------------------------------------------------------------
(* The server and the transport: what a request can be answered with *)

Statuses == {200, 204, 301, 302, 404}

LineA1  == <<"a", "=", "1">>
LineA2P == <<" ", "a", " ", "=", "2", ";", " ", "P">>   \* blanks, an attribute
LineB1  == <<"b", "=", "1">>
LineBeq == <<"b", "=", "1", "=", "2">>            \* the value contains "="
LineNoEq == <<"a">>                               \* no "=": not a cookie
LineNoName == <<"=", "1">>                        \* empty name: not a cookie

CookieLines == {LineA1, LineA2P, LineB1, LineBeq, LineNoEq, LineNoName}

NoSetCookie == [present |-> FALSE, lines |-> <<>>]

RECURSIVE SeqsUpTo(_, _)
\* the sequences over S of length at most n
SeqsUpTo(S, n) ==
    IF n = 0 THEN {<<>>}
    ELSE LET shorter == SeqsUpTo(S, n - 1)
         IN  shorter \cup {Append(q, x) : q \in shorter, x \in S}

\* Set-Cookie headers a response may carry
AnySetCookie ==
    {NoSetCookie} \cup
    {[present |-> TRUE, lines |-> l] : l \in SeqsUpTo(CookieLines, MaxSetCookie) \ {<<>>}}

FlowSetCookie ==
    {NoSetCookie,
     [present |-> TRUE, lines |-> <<LineA1>>],
     [present |-> TRUE, lines |-> <<LineA2P, LineB1>>]}

BodyToken    == <<"<", "T", "x", "V", "Q", "k", "Q", ">">>   \* the hidden field
BodyClosed   == <<"<", "T", ">", "V", "Q", "k", "Q">>        \* tag closed before value=
BodyEmptyVal == <<"<", "T", "V", "Q", "Q", ">">>            \* empty value
BodyPlain    == <<"x">>                                      \* no field at all

LoginBodies == {BodyToken, BodyClosed, BodyEmptyVal, BodyPlain, ObjectBody}

DataOf(ep) ==
    CASE ep = "loginPage" -> LoginBodies
      [] ep = "timeFetch" -> {<<"slotsA">>, <<"slotsB">>, <<>>}
      [] ep \in {"revisit", "ask"} -> {<<"x">>, MessageBody}
      [] OTHER -> {<<"x">>}

TransportError == [kind |-> "error", status |-> 0, setCookie |-> NoSetCookie, data |-> <<>>]

Outcomes(ep, setCookies) ==
    {TransportError} \cup
    [kind : {"response"}, status : Statuses, setCookie : setCookies, data : DataOf(ep)]

\* the promise of the request resolves: a response whose status validateStatus accepts
Accepted(ep, o) == o.kind = "response" /\ ValidateStatus(ep, o.status)

---------------------------------------------------------------------------
(* Values *)

NoRequest == [present |-> FALSE]
NoResponse == [kind |-> "none"]
Unset == "unset"
Bool(b) == IF b THEN "true" ELSE "false"

NoValue == [kind |-> "unset"]
Null == [kind |-> "null"]
Data(d) == [kind |-> "data", data |-> d]

NoResult == [kind |-> "unset"]
BookingResult(success, message, date, time) ==
    [kind |-> "result", success |-> success, message |-> message, date |-> date, time |-> time]

LoginFailed == BookingResult(FALSE, "Login failed", Absent, Absent)
\* LoggedInOnly that echoes what the config holds of date and time
LoggedInOnlyEchoes ==
    BookingResult(TRUE, "Logged in successfully. Use getAvailableTimes() to see available slots",
                  config.date, config.time)

LoggedInOnly ==
    BookingResult(TRUE, "Logged in successfully. Use getAvailableTimes() to see available slots",
                  Absent, Absent)

Dates == {"2025-11-16", "2025-11-17"}
Clock == {"10:00"}

\* the ids are either both left to their defaults or both given
\* length is no field of BookingConfig: only a direct call of bookAppointment
\* can pass it
Configs ==
    [mobile : {"0544458876"}, serviceTypeId : {Absent}, schedulerId : {Absent},
     date : Dates \cup {Absent}, time : Clock \cup {Absent}, length : {Absent}]
    \cup
    [mobile : {"0544458876"}, serviceTypeId : {"3928"}, schedulerId : {"7001"},
     date : Dates \cup {Absent}, time : Clock \cup {Absent}, length : {Absent}]

Lengths == {"15"}

NoConfig ==
    [mobile |-> Absent, serviceTypeId |-> Absent, schedulerId |-> Absent,
     date |-> Absent, time |-> Absent, length |-> Absent]

\* no run is being compared
NoFirst == [config |-> NoConfig, requests |-> <<>>, responses |-> <<>>, result |-> NoResult]
NoTwin == [run |-> 0, requests |-> <<>>, responses |-> <<>>, first |-> NoFirst]

OtherClock == {"11:30"}      \* a time for the second run
TwinStatuses == {200, 302, 404}

\* the one body the server of the two runs answers a request with
TwinData(ep) ==
    CASE ep = "loginPage" -> BodyToken
      [] ep = "timeFetch" -> <<"slotsA">>
      [] OTHER -> <<"x">>

\* the server of the two runs: in the second run every request meets the
\* response its counterpart of the first run met
Replays(ep, o) ==
    LET k == Len(twin.responses) + 1
        free == o.kind = "error" \/
                (o.status \in TwinStatuses /\ o.setCookie = NoSetCookie /\ o.data = TwinData(ep))
    IN  CASE twin.run = 0 -> TRUE
          [] twin.run = 1 -> free
          [] OTHER -> IF k <= Len(twin.first.responses)
                      THEN o = twin.first.responses[k]
                      ELSE free

NoEvent == [kind |-> "none", url |-> <<>>, n |-> 0]

---------------------------------------------------------------------------
(* Construction *)

Init ==
    /\ sessionCookies = <<>>
    /\ pc = "idle"
    /\ entry = "none"
    /\ config = NoConfig
    /\ inflight = NoRequest
    /\ sent = <<>>
    /\ lastResp = NoResponse
    /\ lastSetCookie = NoSetCookie
    /\ isValid = Unset
    /\ loginPage = NoResponse
    /\ loggedIn = Unset
    /\ times = NoValue
    /\ result = NoResult
    /\ bookingResult = NoResult
    /\ fetched = NoValue
    /\ calls = 0
    /\ twin = NoTwin
    /\ networkRequests = <<>>
    /\ networkResponses = <<>>
    /\ lastEvent = NoEvent

---------------------------------------------------------------------------
(* A caller invokes a public method on the client *)

FirstRequest(method) ==
    CASE method \in {"completeBooking", "login", "validateMobile"} -> "validate"
      [] method = "getAvailableTimes"   -> "typeSelect"
      [] method = "bookAppointment"     -> "revisit"
      [] method = "getServiceTypes"     -> "typeSelectList"
      [] method = "getServiceProviders" -> "providers"
      [] method = "getNextWeekTimes"    -> "nextWeek"

\* the call itself: nothing of an earlier invocation remains but the session store
InvokeMethod(method, cfg, limit) ==
    /\ pc = "idle"
    /\ calls < limit
    /\ calls' = calls + 1
    /\ entry' = method
    /\ config' = cfg
    /\ pc' = FirstRequest(method)
    /\ sent' = <<>>
    /\ isValid' = Unset
    /\ loginPage' = NoResponse
    /\ loggedIn' = Unset
    /\ times' = NoValue
    /\ result' = NoResult
    /\ bookingResult' = NoResult
    /\ fetched' = NoValue
    /\ UNCHANGED <<sessionCookies, inflight, lastResp, lastSetCookie>>
    /\ UNCHANGED monitorVars

Invoke(method, cfg, limit) == InvokeMethod(method, cfg, limit) /\ UNCHANGED twin

CallCompleteBooking == \E cfg \in Configs : Invoke("completeBooking", cfg, MaxCalls)
CallLogin == \E cfg \in Configs : Invoke("login", cfg, MaxCalls)
CallValidateMobile == \E cfg \in Configs : Invoke("validateMobile", cfg, MaxCalls)
CallGetAvailableTimes == \E cfg \in Configs : Invoke("getAvailableTimes", cfg, MaxCalls)
\* date and time are required arguments of bookAppointment
CallBookAppointment ==
    \E cfg \in Configs, length \in Lengths \cup {Absent} :
        /\ cfg.date # Absent /\ cfg.time # Absent
        /\ Invoke("bookAppointment", [cfg EXCEPT !.length = length], MaxCalls)
CallGetServiceTypes(limit) == Invoke("getServiceTypes", NoConfig, limit)
CallGetServiceProviders(limit) == Invoke("getServiceProviders", NoConfig, limit)
CallGetNextWeekTimes(limit) == Invoke("getNextWeekTimes", NoConfig, limit)

---------------------------------------------------------------------------
(* this.client.get / this.client.post: the request leaves through the      *)
(* request interceptor                                                     *)

\* BodyOf with a booking call that carries the date and the time
BodyOfWithDate(ep, cfg, page) ==
    IF ep = "loginSubmit"
    THEN << <<"Mobile", <<cfg.mobile>> >>,
            <<"__RequestVerificationToken", TokenMatch(page.data)>> >>
    ELSE IF ep = "ask"
    THEN << <<"Date", <<cfg.date>> >>, <<"Time", <<cfg.time>> >> >>
    ELSE <<>>

\* the form body of the login submission (line 121)
BodyOf(ep, cfg, page) ==
    IF ep = "loginSubmit"
    THEN << <<"Mobile", <<cfg.mobile>> >>,
            <<"__RequestVerificationToken", TokenMatch(page.data)>> >>
    ELSE <<>>

SendRequest ==
    /\ pc \in Endpoints
    /\ ~inflight.present
    /\ inflight' = [present |-> TRUE, ep |-> pc, method |-> MethodOf(pc), path |-> PathOf(pc),
                    params |-> ParamsOf(pc, config), body |-> BodyOf(pc, config, loginPage),
                    cookie |-> RequestInterceptor(sessionCookies)]
    /\ sent' = Append(sent, [ep |-> pc, ok |-> "pending"])
    /\ twin' = IF twin.run = 0 THEN twin
               ELSE [twin EXCEPT !.requests =
                        Append(@, [method |-> MethodOf(pc), path |-> PathOf(pc),
                                   params |-> ParamsOf(pc, config),
                                   body |-> BodyOf(pc, config, loginPage)])]
    /\ UNCHANGED <<sessionCookies, pc, entry, config, lastResp, lastSetCookie, isValid,
                   loginPage, loggedIn, times, result, bookingResult, fetched, calls>>
    /\ UNCHANGED monitorVars

\* the answer o arrives: the promise settles and, when it resolves, the
\* response passes through the response interceptor
Answer(ep, o) ==
    /\ pc = ep
    /\ inflight.present
    /\ Replays(ep, o)
    /\ twin' = IF twin.run = 0 THEN twin ELSE [twin EXCEPT !.responses = Append(@, o)]
    /\ inflight' = NoRequest
    /\ lastResp' = o
    /\ sent' = [sent EXCEPT ![Len(sent)].ok = IF Accepted(ep, o) THEN "ok" ELSE "fail"]
    /\ sessionCookies' = IF Accepted(ep, o)
                         THEN ResponseInterceptor(sessionCookies, o)
                         ELSE sessionCookies
    /\ lastSetCookie' = IF Accepted(ep, o) /\ o.setCookie.present
                        THEN o.setCookie
                        ELSE lastSetCookie
    /\ UNCHANGED <<entry, config, calls>>
    /\ UNCHANGED monitorVars

---------------------------------------------------------------------------
(* Returns: where control goes when a method hands back its value *)

\* error.message of an axios error
ErrorMessage(error) ==
    IF error.kind = "response" THEN "Request failed with status code" ELSE "Network Error"

Raised == "raised"                  \* a method ended by throwing
RaisedValue == [kind |-> "raised"]

\* CompleteBookingReturns that leaves the message out of the result
CompleteBookingReturnsBare(r) ==
    /\ pc' = "idle"
    /\ bookingResult' = [r EXCEPT !.message = ""]

\* completeBooking returns r
CompleteBookingReturns(r) ==
    /\ pc' = "idle"
    /\ bookingResult' = r

\* the catch block of completeBooking, lines 385-390
CompleteBookingCatch(error) ==
    CompleteBookingReturns(BookingResult(FALSE, ErrorMessage(error), Absent, Absent))

\* an error leaves bookAppointment: it reaches the caller, or the catch
\* block of completeBooking
BookAppointmentThrows(error) ==
    /\ result' = RaisedValue
    /\ IF entry = "bookAppointment"
       THEN pc' = "idle" /\ UNCHANGED bookingResult
       ELSE CompleteBookingCatch(error)

\* an error leaves getAvailableTimes
GetAvailableTimesThrows(error) ==
    /\ times' = RaisedValue
    /\ IF entry = "getAvailableTimes"
       THEN pc' = "idle" /\ UNCHANGED bookingResult
       ELSE CompleteBookingCatch(error)

\* an error leaves login
LoginThrows(error) ==
    /\ loggedIn' = Raised
    /\ IF entry = "login"
       THEN pc' = "idle" /\ UNCHANGED bookingResult
       ELSE CompleteBookingCatch(error)

\* BookAppointmentReturns whose caller drops the result and reports the login
BookAppointmentReturnsDropped(r) ==
    /\ result' = r
    /\ IF entry = "bookAppointment"
       THEN pc' = "idle" /\ UNCHANGED bookingResult
       ELSE CompleteBookingReturns(LoggedInOnly)

\* bookAppointment returns r; completeBooking returns it (lines 372-378)
BookAppointmentReturns(r) ==
    /\ result' = r
    /\ IF entry = "bookAppointment"
       THEN pc' = "idle" /\ UNCHANGED bookingResult
       ELSE CompleteBookingReturns(r)

\* GetAvailableTimesReturns with line 370 reading config.date || config.time
GetAvailableTimesReturnsEither(v) ==
    /\ times' = v
    /\ IF entry = "getAvailableTimes"
       THEN pc' = "idle" /\ UNCHANGED bookingResult
       ELSE IF Truthy(config.date) \/ Truthy(config.time)
       THEN pc' = "revisit" /\ UNCHANGED bookingResult
       ELSE CompleteBookingReturns(LoggedInOnly)

\* getAvailableTimes returns v; completeBooking goes on (lines 368-384)
GetAvailableTimesReturns(v) ==
    /\ times' = v
    /\ IF entry = "getAvailableTimes"
       THEN pc' = "idle" /\ UNCHANGED bookingResult
       ELSE IF Truthy(config.date) /\ Truthy(config.time)
       THEN pc' = "revisit" /\ UNCHANGED bookingResult
       ELSE CompleteBookingReturns(LoggedInOnly)

\* LoginReturns without the check of line 356
LoginReturnsUnchecked(v) ==
    /\ loggedIn' = v
    /\ IF entry = "login"
       THEN pc' = "idle" /\ UNCHANGED bookingResult
       ELSE pc' = "typeSelect" /\ UNCHANGED bookingResult

\* login returns v; completeBooking goes on (lines 355-368)
LoginReturns(v) ==
    /\ loggedIn' = v
    /\ IF entry = "login"
       THEN pc' = "idle" /\ UNCHANGED bookingResult
       ELSE IF v = "true"
       THEN pc' = "typeSelect" /\ UNCHANGED bookingResult
       ELSE CompleteBookingReturns(LoginFailed)

\* ValidateMobileReturns without the check of line 101
ValidateMobileReturnsUnchecked(v) ==
    /\ isValid' = v
    /\ IF entry = "validateMobile"
       THEN pc' = "idle" /\ UNCHANGED <<loggedIn, bookingResult>>
       ELSE pc' = "loginPage" /\ UNCHANGED <<loggedIn, bookingResult>>

\* validateMobile returns v; login goes on (lines 100-107)
ValidateMobileReturns(v) ==
    /\ isValid' = v
    /\ IF entry = "validateMobile"
       THEN pc' = "idle" /\ UNCHANGED <<loggedIn, bookingResult>>
       ELSE IF v = "true"
       THEN pc' = "loginPage" /\ UNCHANGED <<loggedIn, bookingResult>>
       ELSE LoginReturns("false")

---------------------------------------------------------------------------
(* validateMobile (lines 78-92) *)

\* RecvValidate that takes every accepted response for a success
RecvValidateAnyAccepted(setCookies) ==
    \E o \in Outcomes("validate", setCookies) :
        /\ Answer("validate", o)
        /\ ValidateMobileReturns(Bool(Accepted("validate", o)))
        /\ UNCHANGED <<loginPage, times, result, fetched>>

RecvValidate(setCookies) ==
    \E o \in Outcomes("validate", setCookies) :
        /\ Answer("validate", o)
        /\ ValidateMobileReturns(Bool(Accepted("validate", o) /\ o.status = 200))
        /\ UNCHANGED <<loginPage, times, result, fetched>>

---------------------------------------------------------------------------
(* login (lines 97-141) *)

\* LoginCatch that throws the error again instead of returning false
LoginCatchRethrows(error) ==
    IF error.kind = "response" /\ (error.status = 302 \/ error.status = 200)
    THEN LoginReturns("true")
    ELSE LoginThrows(error)

\* the catch block, lines 133-140; an error that is not an HTTP error
\* (transport failure, TypeError) has no response
LoginCatch(error) ==
    LoginReturns(Bool(error.kind = "response" /\ (error.status = 302 \/ error.status = 200)))

RecvLoginPage(setCookies) ==
    \E o \in Outcomes("loginPage", setCookies) :
        /\ Answer("loginPage", o)
        /\ IF Accepted("loginPage", o)
           THEN /\ loginPage' = o
                /\ IF ~IsString(o.data)
                   THEN LoginCatch(TransportError)      \* .match is not a function
                   ELSE IF TokenMatch(o.data) = <<>>
                   THEN LoginReturns("false")
                   ELSE pc' = "loginSubmit" /\ UNCHANGED <<loggedIn, bookingResult>>
           ELSE /\ UNCHANGED loginPage
                /\ LoginCatch(o)
        /\ UNCHANGED <<isValid, times, result, fetched>>

RecvLoginSubmit(setCookies) ==
    \E o \in Outcomes("loginSubmit", setCookies) :
        /\ Answer("loginSubmit", o)
        /\ IF Accepted("loginSubmit", o)
           THEN LoginReturns(Bool(o.status = 200 \/ o.status = 302))
           ELSE LoginCatch(o)
        /\ UNCHANGED <<isValid, loginPage, times, result, fetched>>

---------------------------------------------------------------------------
(* getAvailableTimes (lines 188-260) *)

\* GetAvailableTimesCatch that hands back the payload of every error
GetAvailableTimesCatchPayload(error) ==
    IF error.kind = "response"
    THEN GetAvailableTimesReturns(Data(error.data))
    ELSE GetAvailableTimesReturns(Null)

\* the catch block, lines 247-259
GetAvailableTimesCatch(error) ==
    IF error.kind = "response" /\ error.status = 302
    THEN GetAvailableTimesReturns(Data(error.data))
    ELSE GetAvailableTimesReturns(Null)

\* PageVisit with a failure swallowed: the next request follows all the same
PageVisitGoesOn(ep, next, setCookies) ==
    \E o \in Outcomes(ep, setCookies) :
        /\ Answer(ep, o)
        /\ pc' = next
        /\ UNCHANGED <<isValid, loginPage, loggedIn, times, result, bookingResult, fetched>>

\* one of the three page visits: on success the next request follows
PageVisit(ep, next, setCookies) ==
    \E o \in Outcomes(ep, setCookies) :
        /\ Answer(ep, o)
        /\ IF Accepted(ep, o)
           THEN pc' = next /\ UNCHANGED <<times, bookingResult>>
           ELSE GetAvailableTimesCatch(o)
        /\ UNCHANGED <<isValid, loginPage, loggedIn, result, fetched>>

RecvTypeSelect(setCookies) == PageVisit("typeSelect", "schedulerSelect", setCookies)
\* RecvSchedulerSelect with the time-select visit left out
RecvSchedulerSelectSkips(setCookies) == PageVisit("schedulerSelect", "timeFetch", setCookies)

RecvSchedulerSelect(setCookies) == PageVisit("schedulerSelect", "timeSelect", setCookies)
RecvTimeSelect(setCookies) == PageVisit("timeSelect", "timeFetch", setCookies)

\* RecvTimeFetch that sends the time fetch a second time when the first fails
RecvTimeFetchRetriesOnce(setCookies) ==
    \E o \in Outcomes("timeFetch", setCookies) :
        /\ Answer("timeFetch", o)
        /\ IF Accepted("timeFetch", o)
           THEN GetAvailableTimesReturns(Data(o.data))
           ELSE IF Cardinality({i \in 1..Len(sent) : sent[i].ep = "timeFetch"}) = 1
           THEN pc' = "timeFetch" /\ UNCHANGED <<times, bookingResult>>
           ELSE GetAvailableTimesCatch(o)
        /\ UNCHANGED <<isValid, loginPage, loggedIn, result, fetched>>

RecvTimeFetch(setCookies) ==
    \E o \in Outcomes("timeFetch", setCookies) :
        /\ Answer("timeFetch", o)
        /\ IF Accepted("timeFetch", o)
           THEN GetAvailableTimesReturns(Data(o.data))
           ELSE GetAvailableTimesCatch(o)
        /\ UNCHANGED <<isValid, loginPage, loggedIn, result, fetched>>

---------------------------------------------------------------------------
(* bookAppointment (lines 295-347) *)

\* BookAppointmentCatch that never looks for a server message
BookAppointmentCatchOwnMessage(error) ==
    BookAppointmentReturns(BookingResult(FALSE, ErrorMessage(error), Absent, Absent))

\* the catch block, lines 340-346
BookAppointmentCatch(error) ==
    BookAppointmentReturns(
        BookingResult(FALSE,
                      IF error.kind = "response" /\ error.data = MessageBody
                      THEN "server message"
                      ELSE ErrorMessage(error),
                      Absent, Absent))

\* RecvRevisit with a failure swallowed: the booking call follows all the same
RecvRevisitGoesOn(setCookies) ==
    \E o \in Outcomes("revisit", setCookies) :
        /\ Answer("revisit", o)
        /\ pc' = "ask"
        /\ UNCHANGED <<result, bookingResult>>
        /\ UNCHANGED <<isValid, loginPage, loggedIn, times, fetched>>

RecvRevisit(setCookies) ==
    \E o \in Outcomes("revisit", setCookies) :
        /\ Answer("revisit", o)
        /\ IF Accepted("revisit", o)
           THEN pc' = "ask" /\ UNCHANGED <<result, bookingResult>>
           ELSE BookAppointmentCatch(o)
        /\ UNCHANGED <<isValid, loginPage, loggedIn, times, fetched>>

\* RecvAsk that takes every accepted response for a booking
RecvAskAnyAccepted(setCookies) ==
    \E o \in Outcomes("ask", setCookies) :
        /\ Answer("ask", o)
        /\ IF Accepted("ask", o)
           THEN BookAppointmentReturns(
                    BookingResult(TRUE, "Appointment booked successfully",
                                  config.date, config.time))
           ELSE BookAppointmentCatch(o)
        /\ UNCHANGED <<isValid, loginPage, loggedIn, times, fetched>>

RecvAsk(setCookies) ==
    \E o \in Outcomes("ask", setCookies) :
        /\ Answer("ask", o)
        /\ IF Accepted("ask", o)
           THEN IF o.status = 200
                THEN BookAppointmentReturns(
                         BookingResult(TRUE, "Appointment booked successfully",
                                       config.date, config.time))
                ELSE BookAppointmentReturns(
                         BookingResult(FALSE, "Booking failed - unexpected response",
                                       Absent, Absent))
           ELSE BookAppointmentCatch(o)
        /\ UNCHANGED <<isValid, loginPage, loggedIn, times, fetched>>

---------------------------------------------------------------------------
(* The single-request methods: getServiceTypes (lines 146-159),            *)
(* getServiceProviders (164-182), getNextWeekTimes (265-290)               *)

RecvGetServiceTypes(outcomes) ==
    \E o \in outcomes :
        /\ Answer("typeSelectList", o)
        /\ fetched' = IF Accepted("typeSelectList", o) THEN Data(o.data) ELSE Data(<<>>)
        /\ pc' = "idle"
        /\ UNCHANGED <<isValid, loginPage, loggedIn, times, result, bookingResult>>

RecvGetServiceProviders(outcomes) ==
    \E o \in outcomes :
        /\ Answer("providers", o)
        /\ fetched' = Data(<<>>)
        /\ pc' = "idle"
        /\ UNCHANGED <<isValid, loginPage, loggedIn, times, result, bookingResult>>

RecvGetNextWeekTimes(outcomes) ==
    \E o \in outcomes :
        /\ Answer("nextWeek", o)
        /\ fetched' = IF Accepted("nextWeek", o) THEN Data(o.data) ELSE Null
        /\ pc' = "idle"
        /\ UNCHANGED <<isValid, loginPage, loggedIn, times, result, bookingResult>>

---------------------------------------------------------------------------
(* Specifications *)

\* the booking flow
Next ==
    \/ CallCompleteBooking
    \/ CallLogin
    \/ CallValidateMobile
    \/ CallGetAvailableTimes
    \/ CallBookAppointment
    \/ SendRequest
    \/ RecvValidate(FlowSetCookie)
    \/ RecvLoginPage(FlowSetCookie)
    \/ RecvLoginSubmit(FlowSetCookie)
    \/ RecvTypeSelect(FlowSetCookie)
    \/ RecvSchedulerSelect(FlowSetCookie)
    \/ RecvTimeSelect(FlowSetCookie)
    \/ RecvTimeFetch(FlowSetCookie)
    \/ RecvRevisit(FlowSetCookie)
    \/ RecvAsk(FlowSetCookie)

Spec == Init /\ [][Next]_vars

\* what the server sets while termination is checked: nothing, or one cookie
LiveSetCookie == {NoSetCookie, [present |-> TRUE, lines |-> <<LineA1>>]}

\* some request in flight is answered, or fails
Responds ==
    \/ RecvValidate(LiveSetCookie)
    \/ RecvLoginPage(LiveSetCookie)
    \/ RecvLoginSubmit(LiveSetCookie)
    \/ RecvTypeSelect(LiveSetCookie)
    \/ RecvSchedulerSelect(LiveSetCookie)
    \/ RecvTimeSelect(LiveSetCookie)
    \/ RecvTimeFetch(LiveSetCookie)
    \/ RecvRevisit(LiveSetCookie)
    \/ RecvAsk(LiveSetCookie)

LiveNext ==
    \/ CallCompleteBooking
    \/ SendRequest
    \/ Responds

\* completeBooking when every network call comes back and the method that
\* awaited it goes on
LiveSpec == Init /\ [][LiveNext]_vars /\ WF_vars(SendRequest) /\ WF_vars(Responds)

\* what the single-request methods are answered with: a transport error, or
\* an accepted or a rejected response with any Set-Cookie header
CookieOutcomes ==
    {TransportError} \cup
    [kind : {"response"}, status : {200, 404}, setCookie : AnySetCookie,
     data : {<<"slotsA">>}]

\* the session store under arbitrary Set-Cookie headers, driven by the
\* single-request methods
CookieNext ==
    \/ CallGetServiceTypes(MaxExchanges)
    \/ CallGetServiceProviders(MaxExchanges)
    \/ CallGetNextWeekTimes(MaxExchanges)
    \/ SendRequest
    \/ RecvGetServiceTypes(CookieOutcomes)
    \/ RecvGetServiceProviders(CookieOutcomes)
    \/ RecvGetNextWeekTimes(CookieOutcomes)

CookieSpec == Init /\ [][CookieNext]_vars

\* completeBooking on a new client, with a date and a time
FirstRun ==
    /\ twin.run = 0
    /\ calls = 0
    /\ \E cfg \in Configs :
          /\ Truthy(cfg.date) /\ Truthy(cfg.time)
          /\ InvokeMethod("completeBooking", cfg, MaxCalls)
    /\ twin' = [twin EXCEPT !.run = 1]

\* completeBooking on another new client, with a config that differs from
\* that of the first run in date and time only
SecondRun ==
    /\ twin.run = 1
    /\ pc = "idle"
    /\ \E d \in Dates, t \in Clock \cup OtherClock :
          /\ <<d, t>> # <<config.date, config.time>>
          /\ config' = [config EXCEPT !.date = d, !.time = t]
    /\ twin' = [run |-> 2, requests |-> <<>>, responses |-> <<>>,
                first |-> [config |-> config, requests |-> twin.requests,
                           responses |-> twin.responses, result |-> bookingResult]]
    /\ sessionCookies' = <<>>
    /\ lastSetCookie' = NoSetCookie
    /\ lastResp' = NoResponse
    /\ inflight' = NoRequest
    /\ entry' = "completeBooking"
    /\ pc' = FirstRequest("completeBooking")
    /\ sent' = <<>>
    /\ isValid' = Unset
    /\ loginPage' = NoResponse
    /\ loggedIn' = Unset
    /\ times' = NoValue
    /\ result' = NoResult
    /\ bookingResult' = NoResult
    /\ fetched' = NoValue
    /\ calls' = calls + 1
    /\ UNCHANGED monitorVars

TwinNext ==
    \/ FirstRun
    \/ SecondRun
    \/ SendRequest
    \/ RecvValidate({NoSetCookie})
    \/ RecvLoginPage({NoSetCookie})
    \/ RecvLoginSubmit({NoSetCookie})
    \/ RecvTypeSelect({NoSetCookie})
    \/ RecvSchedulerSelect({NoSetCookie})
    \/ RecvTimeSelect({NoSetCookie})
    \/ RecvTimeFetch({NoSetCookie})
    \/ RecvRevisit({NoSetCookie})
    \/ RecvAsk({NoSetCookie})

TwinSpec == Init /\ [][TwinNext]_vars

---------------------------------------------------------------------------
(* The exploration tool (index.ts): BarberAppointmentBooker's network       *)
(* monitoring. URLs are sequences of one-character strings.                 *)

MaxEvents == 1       \* requests and responses the page emits

UpperCase == <<"A", "B", "C", "D", "E", "F", "G", "H", "I", "J", "K", "L", "M",
               "N", "O", "P", "Q", "R", "S", "T", "U", "V", "W", "X", "Y", "Z">>
LowerCase == <<"a", "b", "c", "d", "e", "f", "g", "h", "i", "j", "k", "l", "m",
               "n", "o", "p", "q", "r", "s", "t", "u", "v", "w", "x", "y", "z">>
Digits == {"0", "1", "2", "3", "4", "5", "6", "7", "8", "9"}

\* String.prototype.toLowerCase
ToLowerCase(s) ==
    [i \in 1..Len(s) |->
        IF \E k \in 1..26 : UpperCase[k] = s[i]
        THEN LowerCase[CHOOSE k \in 1..26 : UpperCase[k] = s[i]]
        ELSE s[i]]

\* String.prototype.includes
Includes(s, sub) ==
    \E i \in 1..(Len(s) - Len(sub) + 1) : SubSeq(s, i, i + Len(sub) - 1) = sub

\* a regular expression anchored with $: the text ends with sub
EndsWith(s, sub) ==
    Len(s) >= Len(sub) /\ SubSeq(s, Len(s) - Len(sub) + 1, Len(s)) = sub

\* /\/v\d+\//i
VersionSegment(url) ==
    \E i \in 1..Len(url), j \in 1..Len(url) :
        /\ j >= i + 3
        /\ url[i] = "/"
        /\ ToLowerCase(<<url[i + 1]>>) = <<"v">>
        /\ \A k \in (i + 2)..(j - 1) : url[k] \in Digits
        /\ url[j] = "/"

staticExtensions ==
    {<<".", "j", "s">>, <<".", "c", "s", "s">>, <<".", "p", "n", "g">>, <<".", "j", "p", "g">>, <<".", "j", "p", "e", "g">>, <<".", "g", "i", "f">>, <<".", "s", "v", "g">>, <<".", "i", "c", "o">>, <<".", "w", "o", "f", "f">>, <<".", "w", "o", "f", "f", "2">>, <<".", "t", "t", "f">>}

\* line 188: some static extension occurs somewhere in the lowered URL
hasStaticExtension(url) ==
    \E ext \in staticExtensions : Includes(ToLowerCase(url), ext)

\* lines 191-196; the first four tests ignore case, the last two do not
isApiPattern(url) ==
    \/ Includes(ToLowerCase(url), <<"/", "a", "p", "i", "/">>)
    \/ Includes(ToLowerCase(url), <<"/", "g", "r", "a", "p", "h", "q", "l">>)
    \/ Includes(ToLowerCase(url), <<"/", "r", "e", "s", "t", "/">>)
    \/ VersionSegment(url)
    \/ Includes(url, <<"a", "j", "a", "x">>)
    \/ Includes(url, <<"x", "h", "r">>)

\* /\.(json|xml)$/i
JsonOrXmlSuffix(url) ==
    EndsWith(ToLowerCase(url), <<".", "j", "s", "o", "n">>) \/ EndsWith(ToLowerCase(url), <<".", "x", "m", "l">>)

\* line 198
isApiRequest(url) ==
    ~hasStaticExtension(url) /\ (isApiPattern(url) \/ JsonOrXmlSuffix(url))

Origin == <<"h", ":", "/", "/", "s">>
UrlPaths == {<<"/", "a", "p", "i", "/">>,
             <<"/", "A", "P", "I", "/">>,
             <<"/", "g", "r", "a", "p", "h", "q", "l", "/">>,
             <<"/", "r", "e", "s", "t", "/">>,
             <<"/", "v", "2", "/">>,
             <<"/", "v", "/">>,
             <<"/", "a", "j", "a", "x", "/">>,
             <<"/", "x", "h", "r", "/">>,
             <<"/", "p", "/">>}
UrlFiles == {<<>>,
             <<"d", ".", "j", "s", "o", "n">>,
             <<"d", ".", "x", "m", "l">>,
             <<"a", ".", "j", "s">>,
             <<"a", ".", "C", "S", "S">>,
             <<"d", ".", "x", "m", "l", "?", "q">>}
Urls == {Origin \o p \o f : p \in UrlPaths, f \in UrlFiles}
Methods == {"GET", "POST"}
PageStatuses == {200, 404}

\* page.on('request', ...), lines 106-137
OnRequest ==
    \E url \in Urls, method \in Methods :
        /\ lastEvent.n < MaxEvents
        /\ lastEvent' = [kind |-> "request", url |-> url, n |-> lastEvent.n + 1]
        /\ networkRequests' = IF isApiRequest(url)
                              THEN Append(networkRequests, [url |-> url, method |-> method])
                              ELSE networkRequests
        /\ UNCHANGED networkResponses
        /\ UNCHANGED bookerVars

\* page.on('response', ...), lines 140-182
OnResponse ==
    \E url \in Urls, status \in PageStatuses :
        /\ lastEvent.n < MaxEvents
        /\ lastEvent' = [kind |-> "response", url |-> url, n |-> lastEvent.n + 1]
        /\ networkResponses' = IF isApiRequest(url)
                               THEN Append(networkResponses, [url |-> url, status |-> status])
                               ELSE networkResponses
        /\ UNCHANGED networkRequests
        /\ UNCHANGED bookerVars

MonitorNext == OnRequest \/ OnResponse

MonitorSpec == Init /\ [][MonitorNext]_vars

---------------------------------------------------------------------------
(* Vocabulary of the properties *)

LoginRequests == {"validate", "loginPage", "loginSubmit"}
LookupRequests == {"typeSelect", "schedulerSelect", "timeSelect", "timeFetch"}
BookingRequests == {"revisit", "ask"}

\* position of a request in the flow of completeBooking
Rank(ep) ==
    CASE ep = "validate" -> 1
      [] ep = "loginPage" -> 2
      [] ep = "loginSubmit" -> 3
      [] ep = "typeSelect" -> 4
      [] ep = "schedulerSelect" -> 5
      [] ep = "timeSelect" -> 6
      [] ep = "timeFetch" -> 7
      [] ep = "revisit" -> 8
      [] ep = "ask" -> 9
      [] OTHER -> 0

Requested(ep) == \E i \in 1..Len(sent) : sent[i].ep = ep
Succeeded(ep) == \E i \in 1..Len(sent) : sent[i].ep = ep /\ sent[i].ok = "ok"
Failed(ep) == \E i \in 1..Len(sent) : sent[i].ep = ep /\ sent[i].ok = "fail"

\* the request that lastResp answers: the last one of sent that is not pending
LastAnswered ==
    IF sent = <<>> THEN "none"
    ELSE IF sent[Len(sent)].ok # "pending" THEN sent[Len(sent)].ep
    ELSE IF Len(sent) = 1 THEN "none"
    ELSE sent[Len(sent) - 1].ep

---------------------------------------------------------------------------
(* C1 *)

\* C1 as stated, at the steps type-select, provider-select, time-select and
\* time-fetch of a run whose login submit succeeded: once one of these
\* requests has failed no further request is sent by that invocation (it is
\* the last one).
C1_FirstFailureIsFinal ==
    (entry = "completeBooking" /\ Succeeded("loginSubmit")) =>
        \A i \in 1..Len(sent) :
            (sent[i].ok = "fail" /\ sent[i].ep \in LookupRequests) => i = Len(sent)

\* C1 amended: a failed request is never followed by a request of the same
\* method (no retry, the method ends); a request follows a failed one only
\* when the failed one belongs to the time lookup and the later one to
\* bookAppointment, or when the failed one is the login page and login
\* returned true all the same; once login returned false nothing follows.
C1_FailureEndsItsMethod ==
    entry = "completeBooking" =>
        /\ \A i \in 1..Len(sent) : \A j \in 1..Len(sent) :
              (i < j /\ sent[i].ok = "fail") =>
                  \/ sent[i].ep \in LookupRequests /\ sent[j].ep \in BookingRequests
                  \/ /\ sent[i].ep = "loginPage"
                     /\ loggedIn = "true"
                     /\ sent[j].ep \notin LoginRequests
        /\ loggedIn = "false" =>
              /\ pc = "idle"
              /\ ~inflight.present
              /\ \A i \in 1..Len(sent) : sent[i].ep \in LoginRequests

\* a lookup request failed and the booking request was sent all the same
C1_Witness ==
    /\ entry = "completeBooking"
    /\ Failed("typeSelect")
    /\ Requested("ask")

---------------------------------------------------------------------------
(* C2 *)

\* C2 as stated, for the states TypeSelected, ProviderSelected and
\* TimeSelected of a run whose login submit succeeded: the booking request
\* is sent only after the type-select, provider-select and time-select pages
\* of the lookup were each visited successfully.
C2_BookingOnlyAfterAllSteps ==
    (entry = "completeBooking" /\ Succeeded("loginSubmit") /\ Requested("ask")) =>
        /\ Succeeded("validate")
        /\ Succeeded("typeSelect")
        /\ Succeeded("schedulerSelect")
        /\ \E i \in 1..Len(sent) : sent[i].ep = "timeSelect" /\ sent[i].ok = "ok"

\* C2 amended: requests go out in the fixed order of the flow, never back;
\* the booking request is sent only after validateMobile and login returned
\* true, the lookup was attempted, and the time-select revisit right before
\* it succeeded.
C2_LinearOrderAndBookingAfterLogin ==
    entry = "completeBooking" =>
        /\ \A i \in 1..Len(sent) : \A j \in 1..Len(sent) :
              i < j => Rank(sent[i].ep) < Rank(sent[j].ep)
        /\ Requested("ask") =>
              /\ isValid = "true"
              /\ loggedIn = "true"
              /\ sent[1] = [ep |-> "validate", ok |-> "ok"]
              /\ Requested("typeSelect")
              /\ \E i \in 2..Len(sent) :
                    /\ sent[i].ep = "ask"
                    /\ sent[i - 1] = [ep |-> "revisit", ok |-> "ok"]

\* the booking request was sent although the provider-select visit failed
C2_Witness ==
    /\ entry = "completeBooking"
    /\ Failed("schedulerSelect")
    /\ ~Requested("timeSelect")
    /\ Requested("ask")

---------------------------------------------------------------------------
(* C3 *)

\* C3: the time-fetch request is sent only right after type-select,
\* provider-select and time-select were sent and accepted, in that order;
\* after a failed page visit no time-fetch request is sent.
C3_TimeFetchAfterThreeVisits ==
    /\ \A i \in 1..Len(sent) :
          sent[i].ep = "timeFetch" =>
              /\ i >= 4
              /\ sent[i - 3] = [ep |-> "typeSelect", ok |-> "ok"]
              /\ sent[i - 2] = [ep |-> "schedulerSelect", ok |-> "ok"]
              /\ sent[i - 1] = [ep |-> "timeSelect", ok |-> "ok"]
    /\ \A i \in 1..Len(sent) : \A j \in 1..Len(sent) :
          (/\ i < j
           /\ sent[i].ep \in {"typeSelect", "schedulerSelect", "timeSelect"}
           /\ sent[i].ok = "fail") => sent[j].ep # "timeFetch"

\* the time-fetch request of a direct getAvailableTimes call is in flight
C3_Witness ==
    /\ entry = "getAvailableTimes"
    /\ inflight.present
    /\ inflight.path = "/Clients/TimeSelectScheduler"

---------------------------------------------------------------------------
(* Cookies as a server reads them: the properties' own reading of a        *)
(* Set-Cookie line and of a Cookie header                                  *)

\* the name=value part of a Set-Cookie line: what precedes the first ";"
PairText(line) ==
    LET semi == IndexOf(line, ";", 1)
    IN  Trim(IF semi = 0 THEN line ELSE SubSeq(line, 1, semi - 1))

\* a line sets a cookie when its pair has a "=" after a non-empty name
SetsCookie(line) == IndexOf(PairText(line), "=", 1) > 1

NameIn(text) == Trim(SubSeq(text, 1, IndexOf(text, "=", 1) - 1))
ValueIn(text) == SubSeq(text, IndexOf(text, "=", 1) + 1, Len(text))

\* the cookie names a response sets
NamesSetBy(setCookie) ==
    {NameIn(PairText(setCookie.lines[i])) :
        i \in {k \in 1..Len(setCookie.lines) : SetsCookie(setCookie.lines[k])}}

\* the names held by the session store
StoreNames(store) == {NameIn(store[i]) : i \in 1..Len(store)}

---------------------------------------------------------------------------
(* C4 *)

\* C4: a captured cookie stays in the session store (and so is replayed)
\* until a response sets the same name: a response whose Set-Cookie header
\* sets only other cookie names leaves the entry in place.
C4_CookiesKeptUntilSuperseded ==
    [][\A i \in 1..Len(sessionCookies) :
          (/\ NamesSetBy(lastResp'.setCookie) # {}
           /\ NameIn(sessionCookies[i]) \notin NamesSetBy(lastResp'.setCookie))
              => \E k \in 1..Len(sessionCookies') : sessionCookies'[k] = sessionCookies[i]
      ]_vars

---------------------------------------------------------------------------
(* C5 *)

\* C5: after a response with a Set-Cookie header is processed, the store has
\* exactly one entry per cookie name the header sets, with the value of the
\* last line that sets the name, and no other entry.
C5_OneEntryPerNameLastWins ==
    lastSetCookie.present =>
        LET lines  == lastSetCookie.lines
            setter == {k \in 1..Len(lines) : SetsCookie(lines[k])}
        IN  /\ \A i \in setter :
                  LET name == NameIn(PairText(lines[i]))
                      last == CHOOSE k \in setter :
                                 /\ NameIn(PairText(lines[k])) = name
                                 /\ \A m \in setter :
                                       NameIn(PairText(lines[m])) = name => m <= k
                      held == {k \in 1..Len(sessionCookies) : NameIn(sessionCookies[k]) = name}
                  IN  /\ Cardinality(held) = 1
                      /\ \A k \in held :
                            ValueIn(sessionCookies[k]) = ValueIn(PairText(lines[last]))
            /\ StoreNames(sessionCookies) \subseteq NamesSetBy(lastSetCookie)

\* a response set the cookie a twice, then b: two entries, a with the later value
C5_Witness ==
    /\ lastSetCookie.present
    /\ lastSetCookie.lines = <<LineA1, LineA2P, LineBeq>>
       \/ lastSetCookie.lines = <<LineA1, LineA2P>>
    /\ sessionCookies[1] = <<"a", "=", "2">>

---------------------------------------------------------------------------
(* C6 *)

\* the pairs of a Cookie header, as the server splits it
HeaderPairs(text) ==
    LET parts == Split(text, ";")
    IN  [i \in 1..Len(parts) |-> Trim(parts[i])]

\* C6 as stated: every request sent after login (the login submission was
\* accepted and login returned true) carries a Cookie header.
C6_CookieHeaderAfterLogin ==
    (loggedIn = "true" /\ Succeeded("loginSubmit") /\ inflight.present)
        => inflight.cookie.present

\* C6 amended: every request, after login as before it, carries the whole
\* current session store, which is the store as the latest response with a
\* Set-Cookie header left it: a Cookie header with exactly the pairs of the
\* store, in order, when the store is not empty, and no Cookie header when it
\* is empty (the first request of a fresh client, and any later request when
\* no response has set a cookie).
C6_RequestCarriesWholeStore ==
    inflight.present =>
        /\ IF sessionCookies = <<>>
           THEN ~inflight.cookie.present
           ELSE /\ inflight.cookie.present
                /\ HeaderPairs(inflight.cookie.text) = sessionCookies
        /\ StoreNames(sessionCookies) = NamesSetBy(lastSetCookie)
        /\ (calls = 1 /\ Len(sent) = 1) => ~inflight.cookie.present

\* a request after login carries a store of two cookies, the second response's
C6_Witness ==
    /\ loggedIn = "true"
    /\ inflight.present
    /\ inflight.cookie.present
    /\ Len(sessionCookies) = 2
    /\ lastSetCookie.lines = <<LineA2P, LineB1>>

---------------------------------------------------------------------------
(* C7 *)

\* C7: login returns true exactly when the login submission was answered
\* with status 200 (success) or 302 (redirect).
C7_LoginIffSubmitAnswered ==
    (loggedIn # Unset /\ LastAnswered \in LoginRequests) =>
        (loggedIn = "true" <=>
            /\ LastAnswered = "loginSubmit"
            /\ lastResp.kind = "response"
            /\ lastResp.status \in {200, 302})

---------------------------------------------------------------------------
(* C8 *)

\* the login page bodies without a usable hidden field
BodiesWithoutToken == {BodyClosed, BodyEmptyVal, BodyPlain, ObjectBody}

\* C8: when the login page body lacks the verification-token field, login
\* returns false and the login submission is never requested.
C8_NoTokenNoSubmission ==
    (loginPage.kind = "response" /\ loginPage.data \in BodiesWithoutToken) =>
        /\ loggedIn = "false"
        /\ ~Requested("loginSubmit")
        /\ sent[Len(sent)] = [ep |-> "loginPage", ok |-> "ok"]

\* the field name is there but its tag closes before value=
C8_Witness ==
    /\ entry = "login"
    /\ loginPage.kind = "response"
    /\ loginPage.data = BodyClosed
    /\ loggedIn = "false"

---------------------------------------------------------------------------
(* C9 *)

\* C9: when validateMobile returns false inside login, login returns false,
\* the validation request is the only request of the invocation, and
\* completeBooking returns without sending anything more.
C9_ValidationFailureAborts ==
    (entry \in {"login", "completeBooking"} /\ isValid = "false") =>
        /\ loggedIn = "false"
        /\ Len(sent) = 1
        /\ sent[1].ep = "validate"
        /\ ~inflight.present
        /\ pc = "idle"
        /\ entry = "completeBooking" => bookingResult = LoginFailed

\* validation hit a transport error inside completeBooking
C9_Witness ==
    /\ entry = "completeBooking"
    /\ isValid = "false"
    /\ lastResp.kind = "error"
    /\ pc = "idle"

---------------------------------------------------------------------------
(* C10 *)

\* C10 as stated: validateMobile returns true exactly when the status of the
\* response is in the success range 200..299.
C10_ValidIffSuccessRange ==
    (isValid # Unset /\ LastAnswered = "validate") =>
        (isValid = "true" <=>
            /\ lastResp.kind = "response"
            /\ lastResp.status >= 200
            /\ lastResp.status < 300)

\* C10 amended: validateMobile returns true exactly when the status of the
\* response is 200; for any other status, another 2xx included, and for a
\* transport error it returns false.
C10_ValidIffStatus200 ==
    /\ (LastAnswered = "validate") => isValid \in {"true", "false"}
    /\ (isValid # Unset /\ LastAnswered = "validate") =>
          (isValid = "true" <=> (lastResp.kind = "response" /\ lastResp.status = 200))

\* a 204 answer: accepted by the client, yet validateMobile returns false
C10_Witness ==
    /\ entry = "validateMobile"
    /\ LastAnswered = "validate"
    /\ lastResp.kind = "response"
    /\ lastResp.status = 204
    /\ isValid = "false"

---------------------------------------------------------------------------
(* C11 *)

\* C11: whenever login has returned false inside completeBooking,
\* completeBooking has returned exactly {success: false, message: "Login
\* failed"}, without date or time, and no lookup or booking request was sent.
C11_LoginFailedResult ==
    (entry = "completeBooking" /\ loggedIn = "false") =>
        /\ pc = "idle"
        /\ bookingResult.kind = "result"
        /\ bookingResult.success = FALSE
        /\ bookingResult.message = "Login failed"
        /\ bookingResult.date = Absent /\ bookingResult.time = Absent
        /\ \A i \in 1..Len(sent) : sent[i].ep \notin (LookupRequests \cup BookingRequests)

\* the login submission was answered 404 and completeBooking has returned
C11_Witness ==
    /\ entry = "completeBooking"
    /\ loggedIn = "false"
    /\ LastAnswered = "loginSubmit"
    /\ lastResp.status = 404
    /\ bookingResult.kind = "result"

---------------------------------------------------------------------------
(* C12 *)

\* C12: when login returned true and config.date or config.time is absent,
\* the booking request is never sent (nor the revisit before it), and once
\* the lookup has returned, whatever it returned, completeBooking has
\* returned success true without date and time.
C12_NoBookingWithoutDateAndTime ==
    (/\ entry = "completeBooking"
     /\ loggedIn = "true"
     /\ config.date = Absent \/ config.time = Absent) =>
        /\ ~Requested("ask")
        /\ ~Requested("revisit")
        /\ times.kind # "unset" =>
              /\ pc = "idle"
              /\ bookingResult.kind = "result"
              /\ bookingResult.success = TRUE
              /\ bookingResult.date = Absent /\ bookingResult.time = Absent
        /\ times.kind = "unset" => bookingResult.kind = "unset"

\* a date but no time, and a failed lookup: success all the same
C12_Witness ==
    /\ entry = "completeBooking"
    /\ config.date # Absent /\ config.time = Absent
    /\ Failed("schedulerSelect")
    /\ times.kind = "null"
    /\ bookingResult.kind = "result"
    /\ bookingResult.success = TRUE

---------------------------------------------------------------------------
(* C13 *)

GenericFailure == BookingResult(FALSE, "Booking failed - unexpected response", Absent, Absent)

\* C13 as stated: bookAppointment returns success true whenever the booking
\* call is answered with a status of the success range 200..299.
C13_SuccessOnSuccessRange ==
    (/\ result.kind = "result"
     /\ LastAnswered = "ask"
     /\ lastResp.kind = "response"
     /\ lastResp.status >= 200 /\ lastResp.status < 300) =>
        /\ result.success = TRUE
        /\ result.date = config.date /\ result.time = config.time

\* C13 amended: bookAppointment returns {success: true, date, time} with its
\* own date and time exactly when the booking call is answered with status
\* 200; for every other status the client accepts (204) it returns success
\* false with the generic message and neither date nor time.
C13_SuccessOnStatus200 ==
    (result.kind = "result" /\ LastAnswered = "ask" /\ lastResp.kind = "response") =>
        /\ lastResp.status = 200 =>
              result = BookingResult(TRUE, "Appointment booked successfully",
                                     config.date, config.time)
        /\ (lastResp.status # 200 /\ lastResp.status >= 200 /\ lastResp.status < 300) =>
              result = GenericFailure
        /\ result.success = TRUE <=> lastResp.status = 200

\* a direct call whose booking request is answered 204
C13_Witness ==
    /\ entry = "bookAppointment"
    /\ LastAnswered = "ask"
    /\ lastResp.kind = "response"
    /\ lastResp.status = 204
    /\ result = GenericFailure

---------------------------------------------------------------------------
(* C14 *)

\* C14: in completeBooking with a date and a time, when the booking call is
\* answered with status 200 (validation and login were accepted before),
\* completeBooking has returned success true with config.date and
\* config.time.
C14_EndToEndSuccess ==
    (/\ entry = "completeBooking"
     /\ LastAnswered = "ask"
     /\ sent[Len(sent)].ok # "pending"
     /\ lastResp.kind = "response"
     /\ lastResp.status = 200) =>
        /\ pc = "idle"
        /\ isValid = "true" /\ loggedIn = "true"
        /\ config.date \in Dates /\ config.time \in Clock
        /\ bookingResult.kind = "result"
        /\ bookingResult.success = TRUE
        /\ bookingResult.date = config.date
        /\ bookingResult.time = config.time

\* the run of the spec's example: every request accepted, booking answered 200
C14_Witness ==
    /\ entry = "completeBooking"
    /\ config.date = "2025-11-16" /\ config.time = "10:00"
    /\ Len(sent) = 9
    /\ \A i \in 1..Len(sent) : sent[i].ok = "ok"
    /\ lastResp.status = 200
    /\ bookingResult.success = TRUE

---------------------------------------------------------------------------
(* C15 *)

\* C15: whatever the requests are answered with, no method ends by throwing:
\* validateMobile and login return a boolean, getAvailableTimes a payload or
\* null, bookAppointment and completeBooking a BookingResult; a method that
\* has come back to its caller has returned such a value.
C15_NoExceptionEscapes ==
    /\ isValid \in {Unset, "true", "false"}
    /\ loggedIn \in {Unset, "true", "false"}
    /\ times.kind \in {"unset", "null", "data"}
    /\ result.kind \in {"unset", "result"}
    /\ bookingResult.kind \in {"unset", "result"}
    /\ (pc = "idle" /\ entry = "validateMobile") => isValid # Unset
    /\ (pc = "idle" /\ entry = "login") => loggedIn # Unset
    /\ (pc = "idle" /\ entry = "getAvailableTimes") => times.kind # "unset"
    /\ (pc = "idle" /\ entry = "bookAppointment") => result.kind = "result"
    /\ (pc = "idle" /\ entry = "completeBooking") =>
          /\ bookingResult.kind = "result"
          /\ bookingResult.success \in BOOLEAN
    /\ (pc # "idle") => (pc \in Endpoints /\ entry # "none")

\* the login page body is not a string (a TypeError inside login) and
\* completeBooking has returned a failure result
C15_Witness ==
    /\ entry = "completeBooking"
    /\ pc = "idle"
    /\ loginPage.kind = "response"
    /\ loginPage.data = ObjectBody
    /\ bookingResult.kind = "result"
    /\ bookingResult.success = FALSE

---------------------------------------------------------------------------
(* C16 *)

\* C16: when the revisit or the booking call of bookAppointment throws (a
\* transport error, or a status its validateStatus rejects), bookAppointment
\* returns success false without date and time; the message is the server's
\* message when the error response carries one, else the error's own message.
C16_ThrownBookingRequest ==
    (sent # <<>> /\ sent[Len(sent)].ep \in BookingRequests /\ sent[Len(sent)].ok = "fail") =>
        /\ result.kind = "result"
        /\ result.success = FALSE
        /\ result.date = Absent
        /\ result.time = Absent
        /\ result.message =
              IF lastResp.kind = "response" /\ lastResp.data = MessageBody
              THEN "server message"
              ELSE IF lastResp.kind = "response"
                   THEN "Request failed with status code"
                   ELSE "Network Error"
        /\ entry = "completeBooking" => bookingResult = result

\* the booking call was answered 404 with a body that has a message
C16_Witness ==
    /\ Failed("ask")
    /\ lastResp.kind = "response"
    /\ lastResp.status = 404
    /\ lastResp.data = MessageBody
    /\ result.kind = "result"
    /\ result.message = "server message"

---------------------------------------------------------------------------
(* C17 *)

---------------------------------------------------------------------------
(* C18 *)

\* C18: the booking call POST /Clients/AskAppointment is sent only right
\* after a revisit GET /Clients/TimeSelect that succeeded, and its only
\* parameter is Length, 7 unless a length was passed; when the revisit fails
\* the booking call is never sent and the result has success false.
C18_RevisitThenAsk ==
    /\ \A i \in 1..Len(sent) :
          sent[i].ep = "ask" => (i > 1 /\ sent[i - 1] = [ep |-> "revisit", ok |-> "ok"])
    /\ (inflight.present /\ inflight.ep = "revisit") =>
          (inflight.method = "GET" /\ inflight.path = "/Clients/TimeSelect")
    /\ (inflight.present /\ inflight.ep = "ask") =>
          /\ inflight.method = "POST"
          /\ inflight.path = "/Clients/AskAppointment"
          /\ inflight.body = <<>>
          /\ inflight.params =
                << <<"Length", <<IF config.length = Absent THEN "7" ELSE config.length>> >> >>
    /\ Failed("revisit") =>
          /\ ~Requested("ask")
          /\ pc = "idle"
          /\ result.kind = "result"
          /\ result.success = FALSE

\* the revisit of a direct call of bookAppointment with a length failed
C18_Witness ==
    /\ entry = "bookAppointment"
    /\ config.length = "15"
    /\ Failed("revisit")
    /\ ~Requested("ask")
    /\ result.kind = "result"

---------------------------------------------------------------------------
(* C19 *)

\* C19: a result of completeBooking with success true that carries a date or
\* a time exists only when, in this invocation, login returned true, the
\* booking call POST /Clients/AskAppointment was sent after the login
\* requests and was answered with status 200; the date and time are those of
\* the config.
C19_SuccessOnlyByBooking ==
    (/\ entry = "completeBooking"
     /\ bookingResult.kind = "result"
     /\ bookingResult.success = TRUE
     /\ (bookingResult.date # Absent \/ bookingResult.time # Absent)) =>
        /\ loggedIn = "true"
        /\ sent[Len(sent)] = [ep |-> "ask", ok |-> "ok"]
        /\ \E i \in 1..(Len(sent) - 1) : sent[i].ep \in LoginRequests
        /\ \A i \in 1..(Len(sent) - 1) : sent[i].ep # "ask"
        /\ lastResp.kind = "response"
        /\ lastResp.status = 200
        /\ bookingResult.date = config.date /\ config.date # Absent
        /\ bookingResult.time = config.time /\ config.time # Absent

\* a booking that succeeded although the lookup before it had failed
C19_Witness ==
    /\ entry = "completeBooking"
    /\ times = Null
    /\ bookingResult.kind = "result"
    /\ bookingResult.success = TRUE
    /\ bookingResult.date = "2025-11-17"
    /\ bookingResult.time = "10:00"

---------------------------------------------------------------------------
(* C20 *)

\* a result without the date and time it echoes
Unechoed(r) == IF r.kind = "result" THEN [r EXCEPT !.date = Absent, !.time = Absent] ELSE r

\* C20: of two runs of completeBooking whose configs differ only in their
\* (non-empty) date and time and that meet the same responses, the second
\* sends request by request what the first sent (method, path, parameters,
\* body) and ends after as many requests; the two results differ at most in
\* the date and time they echo, which are those of the run's own config.
C20_DateAndTimeNeverSent ==
    twin.run = 2 =>
        /\ Len(twin.requests) <= Len(twin.first.requests)
        /\ \A k \in 1..Len(twin.requests) : twin.requests[k] = twin.first.requests[k]
        /\ pc = "idle" =>
              /\ twin.requests = twin.first.requests
              /\ twin.responses = twin.first.responses
              /\ Unechoed(bookingResult) = Unechoed(twin.first.result)
              /\ bookingResult.date \in {Absent, config.date}
              /\ bookingResult.time \in {Absent, config.time}
              /\ twin.first.result.date \in {Absent, twin.first.config.date}
              /\ twin.first.result.time \in {Absent, twin.first.config.time}

\* both runs went through to a booking answered 200, with another date and
\* another time
C20_Witness ==
    /\ twin.run = 2
    /\ pc = "idle"
    /\ Len(twin.requests) = 9
    /\ twin.first.result.success = TRUE
    /\ bookingResult.success = TRUE
    /\ bookingResult.date # twin.first.result.date
    /\ bookingResult.time # twin.first.result.time

---------------------------------------------------------------------------
(* C21 *)

\* number of requests of the running invocation sent to one of eps
Count(eps) == Cardinality({i \in 1..Len(sent) : sent[i].ep \in eps})

\* requests are sent one after the other, and completeBooking sends each at
\* most once (the time-select page: once in the lookup, once as the revisit)
AtMostNineInTurn ==
    /\ \A i \in 1..(Len(sent) - 1) : sent[i].ok # "pending"
    /\ inflight.present <=> (sent # <<>> /\ sent[Len(sent)].ok = "pending")
    /\ entry = "completeBooking" =>
          /\ Len(sent) <= 9
          /\ \A ep \in Endpoints : Count({ep}) <= 1
          /\ Count({ep \in Endpoints : PathOf(ep) = "/Clients/TimeSelect"}) <= 2

\* C21: when every network call returns a response or throws, every
\* invocation of completeBooking returns; it has sent at most nine requests,
\* each kind at most once and the time-select page at most twice, and each
\* request only after the one before it was answered.
C21_TerminatesWithinNine ==
    /\ []AtMostNineInTurn
    /\ (entry = "completeBooking" /\ pc # "idle") ~> (pc = "idle")

\* completeBooking has returned after nine requests, the time-select page
\* visited twice and the last request failed
C21_Witness ==
    /\ entry = "completeBooking"
    /\ pc = "idle"
    /\ Len(sent) = 9
    /\ Count({"timeSelect", "revisit"}) = 2
    /\ sent[9] = [ep |-> "ask", ok |-> "fail"]

---------------------------------------------------------------------------
(* C22 *)

\* C22: the session store changes only in the step in which a request is
\* answered with an accepted response that carries a Set-Cookie header: a
\* response without the header, a rejected response, a transport error, the
\* sending of a request and the call of a method leave it as it is.
C22_StoreChangesOnlyOnSetCookie ==
    [][LET answered == inflight.present /\ ~inflight'.present
       IN  sessionCookies' # sessionCookies =>
              /\ answered
              /\ lastResp'.kind = "response"
              /\ Accepted(inflight.ep, lastResp')
              /\ lastResp'.setCookie.present
      ]_vars

\* the store holds a cookie, and the response that came last was rejected
\* although it set a cookie of another name
C22_Witness ==
    /\ sessionCookies # <<>>
    /\ pc = "idle"
    /\ lastResp.kind = "response"
    /\ lastResp.status = 404
    /\ NamesSetBy(lastResp.setCookie) # {}
    /\ NamesSetBy(lastResp.setCookie) \cap StoreNames(sessionCookies) = {}

---------------------------------------------------------------------------
(* C23 *)

\* C23: a value other than null returned by getAvailableTimes is the payload
\* of the response to the time fetch POST /Clients/TimeSelectScheduler: the
\* time fetch was sent and answered, the value is the data of that response
\* and never the body of one of the three pages visited before.
C23_TimesAreTheTimeFetchPayload ==
    times.kind = "data" =>
        /\ Requested("timeFetch")
        /\ Succeeded("timeFetch")
        /\ times.data \in DataOf("timeFetch")
        /\ \A ep \in {"typeSelect", "schedulerSelect", "timeSelect"} :
              times.data \notin DataOf(ep)
        /\ LastAnswered = "timeFetch" => times = Data(lastResp.data)

\* a direct call of getAvailableTimes has returned the payload of a time
\* fetch answered 200
C23_Witness ==
    /\ entry = "getAvailableTimes"
    /\ pc = "idle"
    /\ LastAnswered = "timeFetch"
    /\ lastResp.status = 200
    /\ times = Data(<<"slotsA">>)

---------------------------------------------------------------------------
(* C24 *)

\* the event emitted last was written to the log of its kind
Recorded ==
    \/ /\ lastEvent.kind = "request"
       /\ networkRequests # <<>>
       /\ networkRequests[Len(networkRequests)].url = lastEvent.url
    \/ /\ lastEvent.kind = "response"
       /\ networkResponses # <<>>
       /\ networkResponses[Len(networkResponses)].url = lastEvent.url

\* C24, the case it singles out: a request or response whose URL ends in
\* .json or .xml is classified as API-like by isApiRequest and is recorded in
\* the log of requests or of responses.
C24_JsonAndXmlAreApiLike ==
    (lastEvent.kind # "none" /\ JsonOrXmlSuffix(lastEvent.url)) =>
        (isApiRequest(lastEvent.url) /\ Recorded)

====
